---- MODULE Spec2Model ----
(***************************************************************************)
(* nailgun/statistics/utils.py: the registry of collected OpenStack        *)
(* resources, get_info_from_os_resource_manager with its two recursive     *)
(* lookups, and the set_proxy context manager.                             *)
(*                                                                         *)
(* Three specifications share the module:                                  *)
(*   Spec      - calls of get_info_from_os_resource_manager                *)
(*   SpecWalk  - _get_value_from_nested_dict on bounded nested mappings    *)
(*   SpecProxy - nested and successive uses of set_proxy                   *)
(***************************************************************************)
EXTENDS Integers, Sequences, FiniteSets, TLC

VARIABLES
    \* get_info_from_os_resource_manager
    pc,                \* "idle" | "listing" | "done"
    client_provider,   \* the client_provider argument (an object or None)
    resource_name,     \* the resource_name argument
    resource_manager,  \* attribute path of the manager the for loop kept
    attr_reads,        \* number of getattr() calls made by the call
    listed,            \* manager paths on which list() was invoked, in order
    instances_list,    \* what list() returned
    outcome,           \* how the call ended and what it returned
    \* _get_value_from_nested_dict
    obj_dict,          \* the mapping argument
    key_path,          \* the key_path argument
    walked,            \* what the walk returned (or raised)
    \* set_proxy
    environ,           \* os.environ["http_proxy"], or Unset
    frames,            \* the set_proxy generators suspended at yield
    last_exit          \* how the last context exit went

vars == <<pc, client_provider, resource_name, resource_manager, attr_reads, listed, instances_list, outcome, obj_dict, key_path, walked, environ, frames, last_exit>>

infoVars == <<pc, client_provider, resource_name, resource_manager, attr_reads, listed, instances_list, outcome>>
walkVars == <<obj_dict, key_path, walked>>
proxyVars == <<environ, frames, last_exit>>

(***************************************************************************)
(* Bounds of the model.                                                    *)
(***************************************************************************)
MaxEntries == 3     \* keys held by a nested mapping, all levels together
MaxPathLen == 3     \* segments of a key path
MaxInstances == 2   \* instances one list() call returns
MaxClients == 1     \* sub-clients a client holder exposes
MaxNest == 3        \* set_proxy contexts open at once

(***************************************************************************)
(* Python values.  A value is a scalar or a dict; the two are told apart   *)
(* by isinstance(value, dict), modelled by the tag.                        *)
(***************************************************************************)
Scalar(s) == [tag |-> "scalar", v |-> s, items |-> <<>>]
Dict(f) == [tag |-> "dict", v |-> <<>>, items |-> f]
None == Scalar(<<"None">>)
IsDict(value) == value.tag = "dict"

\* what a raised IndexError looks like to the caller of the walk
IndexError == [tag |-> "raise", v |-> <<"IndexError">>, items |-> <<>>]

\* dict.get(key): the value, or None when the key is absent
KeyError == [tag |-> "raise", v |-> <<"KeyError">>, items |-> <<>>]
DictGetStrict(d, key) == IF key \in DOMAIN d.items THEN d.items[key] ELSE KeyError
DictGetFalsyAsNone(d, key) == IF key \in DOMAIN d.items /\ d.items[key] \notin {Scalar(<<"0">>), Scalar(<<"False">>), Scalar(<<"''">>)} THEN d.items[key] ELSE None
DictGet(d, key) == IF key \in DOMAIN d.items THEN d.items[key] ELSE None

RECURSIVE StrictWalk(_, _)
StrictWalk(d, path) ==
    IF path = <<>> THEN IndexError
    ELSE LET value == DictGet(d, Head(path)) IN
         IF IsDict(value) THEN StrictWalk(value, Tail(path))
         ELSE IF Len(path) > 1 THEN None ELSE value

\* _get_value_from_nested_dict: key_path[0] of an empty path raises IndexError
RECURSIVE _get_value_from_nested_dict(_, _)
_get_value_from_nested_dict(d, path) ==
    IF path = <<>> THEN IndexError
    ELSE LET value == DictGet(d, Head(path)) IN
         IF IsDict(value) THEN _get_value_from_nested_dict(value, Tail(path))
         ELSE value

(***************************************************************************)
(* Inputs of the walk: nested mappings over two keys holding at most       *)
(* MaxEntries keys in all, and key paths of at most MaxPathLen segments.   *)
(***************************************************************************)
Keys == {"flavor", "id"}
FalsyNonNull == {Scalar(<<"0">>), Scalar(<<"False">>), Scalar(<<"''">>)}
Scalars == {None, Scalar(<<"42">>)} \cup FalsyNonNull

RECURSIVE DictsOfSize(_)
ValuesOfSize(n) == Scalars \cup DictsOfSize(n)
DictsOfSize(n) ==
    IF n = 0 THEN {Dict(<<>>)}
    ELSE {Dict(<<>>)}
         \cup {Dict([x \in {k} |-> val]) : k \in Keys, val \in ValuesOfSize(n - 1)}
         \cup UNION {{Dict([flavor |-> v1, id |-> v2]) : v1 \in ValuesOfSize(i), v2 \in ValuesOfSize(n - 2 - i)} : i \in 0..(n - 2)}

\* paths may also name a key that no mapping holds
PathKeys == Keys \cup {"extra"}
KeyPaths == UNION {[1..n -> PathKeys] : n \in 1..MaxPathLen}

NotWalked == [tag |-> "pending", v |-> <<>>, items |-> <<>>]

(***************************************************************************)
(* collected_components_attrs: the registry, verbatim.                     *)
(***************************************************************************)
collected_components_attrs ==
    [vm |->
        [attr_names |->
            [id |-> <<"id">>,
             status |-> <<"status">>,
             tenant_id |-> <<"tenant_id">>,
             host_id |-> <<"hostId">>,
             created_at |-> <<"created">>,
             power_state |-> <<"OS-EXT-STS:power_state">>,
             flavor_id |-> <<"flavor", "id">>,
             image_id |-> <<"image", "id">>],
         resource_manager_path |-> << <<"nova", "servers">> >>],
     flavor |->
        [attr_names |->
            [id |-> <<"id">>,
             ram |-> <<"ram">>,
             vcpus |-> <<"vcpus">>,
             ephemeral |-> <<"OS-FLV-EXT-DATA:ephemeral">>,
             disk |-> <<"disk">>,
             swap |-> <<"swap">>],
         resource_manager_path |-> << <<"nova", "flavors">> >>],
     tenant |->
        [attr_names |->
            [id |-> <<"id">>,
             enabled_flag |-> <<"enabled">>],
         resource_manager_path |-> << <<"keystone", "tenants">>, <<"keystone", "projects">> >>],
     image |->
        [attr_names |->
            [id |-> <<"id">>,
             minDisk |-> <<"minDisk">>,
             minRam |-> <<"minRam">>,
             sizeBytes |-> <<"OS-EXT-IMG-SIZE:size">>,
             created_at |-> <<"created">>,
             updated_at |-> <<"updated">>],
         resource_manager_path |-> << <<"nova", "images">> >>],
     volume |->
        [attr_names |->
            [id |-> <<"id">>,
             availability_zone |-> <<"availability_zone">>,
             encrypted_flag |-> <<"encrypted">>,
             bootable_flag |-> <<"bootable">>,
             status |-> <<"status">>,
             volume_type |-> <<"volume_type">>,
             size |-> <<"size">>,
             host |-> <<"os-vol-host-attr:host">>,
             snapshot_id |-> <<"snapshot_id">>,
             attachments |-> <<"attachments">>,
             tenant_id |-> <<"os-vol-tenant-attr:tenant_id">>],
         resource_manager_path |-> << <<"cinder", "volumes">> >>]]

\* resource = collected_components_attrs[resource_name]; an unknown name
\* raises KeyError
LookupWithDefault(name) == [found |-> TRUE, resource |-> IF name \in DOMAIN collected_components_attrs THEN collected_components_attrs[name] ELSE collected_components_attrs["vm"]]
LookupResource(name) ==
    IF name \in DOMAIN collected_components_attrs
    THEN [found |-> TRUE, resource |-> collected_components_attrs[name]]
    ELSE [found |-> FALSE, resource |-> [attr_names |-> <<>>, resource_manager_path |-> <<>>]]

(***************************************************************************)
(* Python objects reached by attribute access.  An object has a truth      *)
(* value (bool(obj)) and named attributes; None is falsy and has none.     *)
(* getattr(obj, name, None) gives None for a missing attribute.            *)
(***************************************************************************)
Obj(truthy, attrs) == [isnone |-> FALSE, truthy |-> truthy, attrs |-> attrs]
NoneObj == [isnone |-> TRUE, truthy |-> FALSE, attrs |-> <<>>]
Truthy(obj) == obj.truthy
Getattr(obj, name) == IF name \in DOMAIN obj.attrs THEN obj.attrs[name] ELSE NoneObj

\* _get_nested_attr, with the number of getattr() calls it made
RECURSIVE _get_nested_attr(_, _)
_get_nested_attr(obj, attr_path) ==
    IF ~(Truthy(obj) /\ attr_path # <<>>)
    THEN [value |-> NoneObj, reads |-> 0]
    ELSE LET attr_value == Getattr(obj, Head(attr_path)) IN
         IF Len(attr_path) = 1
         THEN [value |-> attr_value, reads |-> 1]
         ELSE LET rest == _get_nested_attr(attr_value, Tail(attr_path)) IN
              [value |-> rest.value, reads |-> rest.reads + 1]

\* the for/else loop over resource["resource_manager_path"], from candidate i
NoManager == [found |-> FALSE, path |-> <<>>, reads |-> 0]
RECURSIVE ResolveFrom(_, _, _)
ResolveFrom(provider, paths, i) ==
    IF i > Len(paths) THEN NoManager
    ELSE LET got == _get_nested_attr(provider, paths[i]) IN
         IF Truthy(got.value)
         THEN [found |-> TRUE, path |-> paths[i], reads |-> got.reads]
         ELSE LET later == ResolveFrom(provider, paths, i + 1) IN
              [found |-> later.found, path |-> later.path, reads |-> got.reads + later.reads]

ResolveKeepLast(provider, paths) == LET r == ResolveFrom(provider, paths, 1) IN IF r.found \/ paths = <<>> THEN r ELSE [found |-> TRUE, path |-> paths[Len(paths)], reads |-> r.reads]
ResolveManager(provider, paths) == ResolveFrom(provider, paths, 1)

(***************************************************************************)
(* Raw instances returned by list(): resource objects of the client        *)
(* libraries.  to_dict() is used when the instance has it, its __dict__    *)
(* otherwise.                                                              *)
(***************************************************************************)
Normalise(inst) == IF inst.has_to_dict THEN inst.to_dict ELSE inst.dict

\* inst_details of one instance: one entry per attr_names item.  A walk that
\* raises ends the whole call with that exception.
InstDetails(resource, inst) == [attr_name \in DOMAIN resource.attr_names |-> _get_value_from_nested_dict(Normalise(inst), resource.attr_names[attr_name])]
Raises(details) == \E attr_name \in DOMAIN details : details[attr_name].tag = "raise"

\* how a call ends
Returned(records) == [status |-> "returned", error |-> "", about |-> "", records |-> records]
Raised(error, about) == [status |-> "raised", error |-> error, about |-> about, records |-> <<>>]
Pending == [status |-> "pending", error |-> "", about |-> "", records |-> <<>>]

\* the loop over instances_list, appending inst_details to resource_info
RECURSIVE ExtractPrepending(_, _, _)
ExtractPrepending(resource, instances, resource_info) ==
    IF instances = <<>> THEN Returned(resource_info)
    ELSE LET inst_details == InstDetails(resource, Head(instances)) IN
         IF Raises(inst_details) THEN Raised("IndexError", "")
         ELSE ExtractPrepending(resource, Tail(instances), <<inst_details>> \o resource_info)

RECURSIVE Extract(_, _, _)
Extract(resource, instances, resource_info) ==
    IF instances = <<>> THEN Returned(resource_info)
    ELSE LET inst_details == InstDetails(resource, Head(instances)) IN
         IF Raises(inst_details) THEN Raised("IndexError", "")
         ELSE Extract(resource, Tail(instances), Append(resource_info, inst_details))

\* resource_manager.list() raised: nothing catches it
SwallowListFailure(error) == Returned(<<>>)
OnListFailure(error) == Raised(error, "")

\* the for/else: no candidate kept, raise naming the resource
OnUnavailable(name) == Raised("Exception: Resource manager could not be found", name)

(***************************************************************************)
(* Inputs of a call.                                                       *)
(***************************************************************************)
KnownKinds == {"vm", "flavor", "tenant", "image", "volume"}
ResourceNames == KnownKinds \cup {"network"}

\* sub-clients and the managers the registry names on each
ClientManagers == [nova |-> {"servers", "flavors", "images"}, cinder |-> {"volumes"}, keystone |-> {"tenants", "projects"}]
\* a falsy object stands without attributes: _get_nested_attr returns before
\* reading any attribute of an object that is not truthy
Falsy == Obj(FALSE, <<>>)
ManagerObjs == {Falsy, Obj(TRUE, <<>>)}
ClientObjs(c) == {Falsy} \cup {Obj(TRUE, f) : f \in UNION {[S -> ManagerObjs] : S \in SUBSET ClientManagers[c]}}
AllClientObjs == UNION {ClientObjs(c) : c \in DOMAIN ClientManagers}
ClientSets == {S \in SUBSET DOMAIN ClientManagers : Cardinality(S) <= MaxClients}
ClientHolders == {NoneObj, Falsy} \cup {Obj(TRUE, f) : f \in UNION {{g \in [S -> AllClientObjs] : \A c \in S : g[c] \in ClientObjs(c)} : S \in ClientSets}}

\* first keys of every registry path, and the shapes instances come in
TopKeys == UNION {{collected_components_attrs[k].attr_names[a][1] : a \in DOMAIN collected_components_attrs[k].attr_names} : k \in DOMAIN collected_components_attrs}
Nested == {"flavor", "image"}
SparseKeys == {"tenant_id", "flavor", "enabled", "ram", "minDisk", "size"}
FullMap(n) == Dict([k \in TopKeys |-> IF k \in Nested THEN Dict([id |-> Scalar(<<n, k, "id">>)]) ELSE Scalar(<<n, k>>)])
SparseMap(n) == Dict([k \in TopKeys \ SparseKeys |-> IF k = "image" THEN Dict(<<>>) ELSE IF k = "status" THEN None ELSE Scalar(<<n, k>>)])
OddMap(n) == Dict([k \in TopKeys |-> IF k \in Nested \cup {"id"} THEN Dict([id |-> Dict([x |-> Scalar(<<n, k, "id", "x">>)])]) ELSE Scalar(<<n, k>>)])
Internals(n) == Dict([manager |-> Scalar(<<n, "manager">>), id |-> Scalar(<<n, "__dict__">>)])
WithToDict(n, data) == [name |-> n, has_to_dict |-> TRUE, to_dict |-> data, dict |-> Internals(n)]
Plain(n, data) == [name |-> n, has_to_dict |-> FALSE, to_dict |-> Dict(<<>>), dict |-> data]
Instances == {WithToDict("i1", FullMap("i1")), Plain("i2", FullMap("i2")), WithToDict("i3", SparseMap("i3")), Plain("i4", SparseMap("i4")), Plain("i5", OddMap("i5"))}
InstanceLists == UNION {[1..n -> Instances] : n \in 0..MaxInstances}
UpstreamErrors == {"ConnectionError", "Unauthorized"}

(***************************************************************************)
(* get_info_from_os_resource_manager(client_provider, resource_name)       *)
(***************************************************************************)
InitInfo ==
    /\ pc = "idle"
    /\ client_provider = NoneObj
    /\ resource_name = ""
    /\ resource_manager = <<>>
    /\ attr_reads = 0
    /\ listed = <<>>
    /\ instances_list = <<>>
    /\ outcome = Pending

\* lines 214-231: registry lookup and the search for a resource manager
Call(provider, name) ==
    /\ pc = "idle"
    /\ client_provider' = provider
    /\ resource_name' = name
    /\ LET looked == LookupResource(name) IN
       IF ~looked.found
       THEN /\ pc' = "done"
            /\ outcome' = Raised("KeyError", name)
            /\ UNCHANGED <<resource_manager, attr_reads>>
       ELSE LET r == ResolveManager(provider, looked.resource.resource_manager_path) IN
            /\ attr_reads' = r.reads
            /\ resource_manager' = r.path
            /\ IF r.found
               THEN pc' = "listing" /\ outcome' = Pending
               ELSE pc' = "done" /\ outcome' = OnUnavailable(name)
    /\ UNCHANGED <<listed, instances_list>>

\* lines 233-248: list() returns, every instance is extracted
ListReturns(instances) ==
    /\ pc = "listing"
    /\ listed' = Append(listed, [manager |-> resource_manager, raised |-> ""])
    /\ instances_list' = instances
    /\ outcome' = Extract(LookupResource(resource_name).resource, instances, <<>>)
    /\ pc' = "done"
    /\ UNCHANGED <<client_provider, resource_name, resource_manager, attr_reads>>

\* line 233: list() raises
ListRaises(error) ==
    /\ pc = "listing"
    /\ listed' = Append(listed, [manager |-> resource_manager, raised |-> error])
    /\ outcome' = OnListFailure(error)
    /\ pc' = "done"
    /\ UNCHANGED <<client_provider, resource_name, resource_manager, attr_reads, instances_list>>

\* the call is over; the next one starts afresh
Finish ==
    /\ pc = "done"
    /\ pc' = "idle"
    /\ client_provider' = NoneObj
    /\ resource_name' = ""
    /\ resource_manager' = <<>>
    /\ attr_reads' = 0
    /\ listed' = <<>>
    /\ instances_list' = <<>>
    /\ outcome' = Pending

InitWalkIdle == obj_dict = Dict(<<>>) /\ key_path = <<>> /\ walked = NotWalked
InitProxyIdle == environ = <<>> /\ frames = <<>> /\ last_exit = "none"

Init == InitInfo /\ InitWalkIdle /\ InitProxyIdle

Next ==
    \/ \E provider \in ClientHolders, name \in ResourceNames : Call(provider, name) /\ UNCHANGED <<walkVars, proxyVars>>
    \/ \E instances \in InstanceLists : ListReturns(instances) /\ UNCHANGED <<walkVars, proxyVars>>
    \/ \E error \in UpstreamErrors : ListRaises(error) /\ UNCHANGED <<walkVars, proxyVars>>
    \/ Finish /\ UNCHANGED <<walkVars, proxyVars>>

Spec == Init /\ [][Next]_vars

(***************************************************************************)
(* _get_value_from_nested_dict on its own: every bounded mapping and path. *)
(***************************************************************************)
InitWalk ==
    /\ obj_dict \in DictsOfSize(MaxEntries)
    /\ key_path \in KeyPaths
    /\ walked = NotWalked

Walk ==
    /\ walked = NotWalked
    /\ walked' = _get_value_from_nested_dict(obj_dict, key_path)
    /\ UNCHANGED <<obj_dict, key_path>>

NextWalk == Walk /\ UNCHANGED <<infoVars, proxyVars>>

InitWalkSpec == InitInfo /\ InitWalk /\ InitProxyIdle

SpecWalk == InitWalkSpec /\ [][NextWalk]_vars

(***************************************************************************)
(* set_proxy(proxy).  os.environ["http_proxy"] is a sequence: empty when   *)
(* the variable is unset, else its one value.  A frame is a generator      *)
(* suspended at yield; the field entered remembers the variable as it was  *)
(* on entry.  Contexts nest, so the innermost is the one that exits.       *)
(***************************************************************************)
Unset == <<>>
Proxies == {"http://10.20.0.2:8888", "http://10.20.0.3:8888"}
EnvBefore == {Unset, <<"">>, <<"http://proxy.example.com:3128">>}

\* lines 284-287: proxy_old_value, None unless os.environ.get("http_proxy")
\* is truthy
OldValue(env) == IF env # Unset /\ env[1] # "" THEN env ELSE Unset

\* lines 301-307: the finally block.  The variable is set whenever a context
\* exits (line 294 set it and every inner context restored it), so the del of
\* line 307 finds it.
Restore(frame, env) == IF frame.proxy_old_value # Unset THEN frame.proxy_old_value ELSE Unset

InitProxy ==
    /\ environ \in EnvBefore
    /\ frames = <<>>
    /\ last_exit = "none"

\* lines 284-297: up to the yield
Enter(proxy) ==
    /\ Len(frames) < MaxNest
    /\ frames' = Append(frames, [proxy_old_value |-> OldValue(environ), proxy |-> proxy, entered |-> environ])
    /\ environ' = <<proxy>>
    /\ UNCHANGED last_exit

\* the body ends normally: finally
ExitNormally ==
    /\ frames # <<>>
    /\ environ' = Restore(frames[Len(frames)], environ)
    /\ frames' = SubSeq(frames, 1, Len(frames) - 1)
    /\ last_exit' = "normal"

\* the body raises an Exception: logged and swallowed, then finally
ExitOnException ==
    /\ frames # <<>>
    /\ environ' = Restore(frames[Len(frames)], environ)
    /\ frames' = SubSeq(frames, 1, Len(frames) - 1)
    /\ last_exit' = "exception logged"

\* the body is left by an exception that is no Exception (KeyboardInterrupt,
\* SystemExit): finally runs and the exception goes on to the caller
ExitOnInterrupt ==
    /\ frames # <<>>
    /\ environ' = Restore(frames[Len(frames)], environ)
    /\ frames' = SubSeq(frames, 1, Len(frames) - 1)
    /\ last_exit' = "interrupt propagated"

NextProxy ==
    \/ \E proxy \in Proxies : Enter(proxy) /\ UNCHANGED <<infoVars, walkVars>>
    \/ ExitNormally /\ UNCHANGED <<infoVars, walkVars>>
    \/ ExitOnException /\ UNCHANGED <<infoVars, walkVars>>
    \/ ExitOnInterrupt /\ UNCHANGED <<infoVars, walkVars>>

InitProxySpec == InitInfo /\ InitWalkIdle /\ InitProxy

SpecProxy == InitProxySpec /\ [][NextProxy]_vars

(***************************************************************************)
(* What the claims speak of, stated apart from the code's own lookups.     *)
(***************************************************************************)
\* the value found by indexing d with every key of path in turn
Unreached == [tag |-> "unreached", v |-> <<>>, items |-> <<>>]
RECURSIVE Reach(_, _)
Reach(d, path) ==
    IF path = <<>> THEN d
    ELSE IF d.tag # "dict" THEN Unreached
    ELSE Reach(IF Head(path) \in DOMAIN d.items THEN d.items[Head(path)] ELSE None, Tail(path))

\* d without the key path[j] of the mapping that path[1..j-1] leads to
RECURSIVE Without(_, _, _)
Without(d, path, j) ==
    IF j = 1 THEN Dict([k \in DOMAIN d.items \ {Head(path)} |-> d.items[k]])
    ELSE Dict([d.items EXCEPT ![Head(path)] = Without(@, Tail(path), j - 1)])

\* the key path[j] is held, with value val, by the mapping path[1..j-1] leads to
Holds(d, path, j, val) ==
    LET container == Reach(d, SubSeq(path, 1, j - 1)) IN
    /\ container.tag = "dict"
    /\ path[j] \in DOMAIN container.items
    /\ container.items[path[j]] = val

\* some key of path is missing from the mapping the keys before it lead to
Lacks(d, path) ==
    \E j \in 1..Len(path) :
        LET container == Reach(d, SubSeq(path, 1, j - 1)) IN
        container.tag = "dict" /\ path[j] \notin DOMAIN container.items

\* every segment of an attribute path is there and is not None
RECURSIVE PathPresent(_, _)
PathPresent(obj, path) ==
    IF path = <<>> THEN TRUE
    ELSE LET attr == IF Head(path) \in DOMAIN obj.attrs THEN obj.attrs[Head(path)] ELSE NoneObj IN
         ~attr.isnone /\ PathPresent(attr, Tail(path))

PresentCandidates(provider, paths) == {i \in 1..Len(paths) : ~provider.isnone /\ PathPresent(provider, paths[i])}
FirstPresent(provider, paths) == LET c == PresentCandidates(provider, paths) IN IF c = {} THEN <<>> ELSE paths[CHOOSE i \in c : \A j \in c : i <= j]

CandidatePaths == collected_components_attrs[resource_name].resource_manager_path
AttrNames == collected_components_attrs[resource_name].attr_names
RegistryPaths == UNION {{collected_components_attrs[k].attr_names[a] : a \in DOMAIN collected_components_attrs[k].attr_names} : k \in DOMAIN collected_components_attrs}

KeystoneWith(tenants, projects) == Obj(TRUE, [keystone |-> Obj(TRUE, [tenants |-> tenants, projects |-> projects])])

(***************************************************************************)
(* C1: the manager whose list() is invoked is the terminal object of the   *)
(* first candidate path, in registry order, whose every segment is present *)
(* (not None) on the client holder.                                        *)
(***************************************************************************)
C1_FirstPresentCandidateListed ==
    (pc \in {"listing", "done"} /\ resource_name \in KnownKinds /\ PresentCandidates(client_provider, CandidatePaths) # {}) =>
        /\ resource_manager = FirstPresent(client_provider, CandidatePaths)
        /\ pc = "done" => (listed # <<>> /\ listed[1].manager = FirstPresent(client_provider, CandidatePaths))

(***************************************************************************)
(* C2: when no candidate path of a known kind resolves on the client       *)
(* holder, the call fails with an error naming the resource kind, list()   *)
(* is never invoked and no records are returned.                           *)
(***************************************************************************)
C2_UnavailableRaisesNamingKind ==
    (pc # "idle" /\ resource_name \in KnownKinds /\ PresentCandidates(client_provider, CandidatePaths) = {}) =>
        /\ pc = "done"
        /\ outcome.status = "raised"
        /\ outcome.error = "Exception: Resource manager could not be found"
        /\ outcome.about = resource_name
        /\ outcome.records = <<>>
        /\ listed = <<>>

C2_Witness ==
    /\ pc = "done"
    /\ resource_name = "tenant"
    /\ client_provider = Obj(TRUE, [nova |-> Obj(TRUE, [servers |-> Obj(TRUE, <<>>)])])
    /\ outcome.status = "raised"

(***************************************************************************)
(* C3: when list() fails, the same failure reaches the caller, no records  *)
(* are returned and list() was invoked exactly once.                       *)
(***************************************************************************)
C3_ListFailurePropagates ==
    (pc = "done" /\ listed # <<>> /\ listed[1].raised # "") =>
        /\ outcome.status = "raised"
        /\ outcome.error = listed[1].raised
        /\ outcome.records = <<>>
        /\ Len(listed) = 1

C3_Witness ==
    /\ pc = "done"
    /\ resource_name = "tenant"
    /\ client_provider = KeystoneWith(Obj(TRUE, <<>>), Obj(TRUE, <<>>))
    /\ listed = <<[manager |-> <<"keystone", "tenants">>, raised |-> "ConnectionError"]>>
    /\ outcome.status = "raised"

(***************************************************************************)
(* C4: on success there is one record per listed instance, in the order    *)
(* of the list: the i-th record is extracted from the i-th instance.       *)
(***************************************************************************)
C4_OneRecordPerInstanceInOrder ==
    (pc = "done" /\ outcome.status = "returned") =>
        /\ Len(outcome.records) = Len(instances_list)
        /\ \A i \in 1..Len(instances_list) :
            /\ outcome.records[i] = InstDetails(collected_components_attrs[resource_name], instances_list[i])
            /\ \A a \in DOMAIN outcome.records[i] : outcome.records[i][a] # None => outcome.records[i][a].v[1] = instances_list[i].name

C4_Witness ==
    /\ pc = "done"
    /\ outcome.status = "returned"
    /\ Len(outcome.records) = 2
    /\ instances_list[1].name = "i2"
    /\ instances_list[2].name = "i1"
    /\ outcome.records[1].id # outcome.records[2].id

(***************************************************************************)
(* C5: every returned record has exactly the attribute names of the kind   *)
(* as its keys; a field whose key the instance mapping lacks is recorded   *)
(* as None, and lacking keys never abort the extraction.                   *)
(***************************************************************************)
C5_RecordsHoldEveryDeclaredAttr ==
    /\ (pc = "done" /\ outcome.status = "returned") =>
        \A i \in 1..Len(outcome.records) :
            /\ DOMAIN outcome.records[i] = DOMAIN AttrNames
            /\ \A a \in DOMAIN AttrNames :
                Lacks(Normalise(instances_list[i]), AttrNames[a]) => outcome.records[i][a] = None
    /\ (pc = "done" /\ listed # <<>> /\ listed[1].raised = "" /\ outcome.status = "raised") =>
        \E i \in 1..Len(instances_list) : \E a \in DOMAIN AttrNames : Reach(Normalise(instances_list[i]), AttrNames[a]).tag = "dict"

C5_Witness ==
    /\ pc = "done"
    /\ resource_name = "vm"
    /\ outcome.status = "returned"
    /\ Len(outcome.records) = 1
    /\ "tenant_id" \notin DOMAIN Normalise(instances_list[1]).items
    /\ outcome.records[1].tenant_id = None
    /\ Cardinality(DOMAIN outcome.records[1]) = 8

(***************************************************************************)
(* C8: an unknown resource kind fails with KeyError before any attribute   *)
(* of the client holder is read and before any list() call; each of the    *)
(* five known kinds is found, with attr_names and manager paths that are   *)
(* not empty.                                                              *)
(***************************************************************************)
C8_UnknownKindFailsFirst ==
    /\ (pc # "idle" /\ resource_name \notin KnownKinds) =>
        /\ pc = "done"
        /\ outcome = Raised("KeyError", resource_name)
        /\ attr_reads = 0
        /\ listed = <<>>
    /\ (pc # "idle" /\ resource_name \in KnownKinds) =>
        /\ outcome.error # "KeyError"
        /\ DOMAIN AttrNames # {}
        /\ CandidatePaths # <<>>
    /\ KnownKinds = DOMAIN collected_components_attrs

C8_Witness ==
    /\ pc = "done"
    /\ resource_name = "network"
    /\ client_provider = KeystoneWith(Obj(TRUE, <<>>), Obj(TRUE, <<>>))
    /\ outcome.error = "KeyError"

(***************************************************************************)
(* C6: the walk returns the first value that is not a mapping, whatever    *)
(* segments remain: if indexing by the first k segments of the path gives  *)
(* such a value, every path that starts with those k segments gives it.    *)
(***************************************************************************)
SharePrefix(p, q, k) == Len(q) >= k /\ SubSeq(q, 1, k) = SubSeq(p, 1, k)

C6_StopsAtFirstNonMapping ==
    walked # NotWalked =>
        \A k \in 1..Len(key_path) :
            LET val == Reach(obj_dict, SubSeq(key_path, 1, k)) IN
            val.tag = "scalar" =>
                /\ walked = val
                /\ \A q \in KeyPaths \cup {SubSeq(key_path, 1, k) \o <<"extra">>, key_path \o <<"extra">>} :
                    SharePrefix(key_path, q, k) => _get_value_from_nested_dict(obj_dict, q) = val

C6_Witness ==
    /\ obj_dict = Dict([flavor |-> Dict([id |-> Scalar(<<"42">>)])])
    /\ key_path = <<"flavor", "id", "extra">>
    /\ walked = Scalar(<<"42">>)

(***************************************************************************)
(* C7 as claimed: a mapping that lacks a key of the path and the mapping   *)
(* that holds it with a null or falsy value (None, 0, False, '') never     *)
(* give the same extracted value.                                          *)
(***************************************************************************)
C7_AbsentDiffersFromEveryFalsy ==
    walked # NotWalked =>
        \A j \in 1..Len(key_path) : \A val \in FalsyNonNull \cup {None} :
            Holds(obj_dict, key_path, j, val) =>
                walked # _get_value_from_nested_dict(Without(obj_dict, key_path, j), key_path)

(***************************************************************************)
(* C7 amended: the value of an absent field is None.  It differs from the  *)
(* value of a field held with 0, False or '', which is returned as it is,  *)
(* and equals the value of a field held with None.                         *)
(***************************************************************************)
C7_AbsentIsNone ==
    walked # NotWalked =>
        \A j \in 1..Len(key_path) : \A val \in FalsyNonNull \cup {None} :
            Holds(obj_dict, key_path, j, val) =>
                /\ walked = val
                /\ _get_value_from_nested_dict(Without(obj_dict, key_path, j), key_path) = None
                /\ val \in FalsyNonNull => walked # _get_value_from_nested_dict(Without(obj_dict, key_path, j), key_path)
                /\ val = None => walked = _get_value_from_nested_dict(Without(obj_dict, key_path, j), key_path)

C7_Witness ==
    /\ obj_dict = Dict([flavor |-> Dict([id |-> Scalar(<<"0">>)])])
    /\ key_path = <<"flavor", "id">>
    /\ walked = Scalar(<<"0">>)

(***************************************************************************)
(* C10: for every path of the registry and every mapping, the walk returns *)
(* a value or None and never raises.                                       *)
(***************************************************************************)
C10_WalkNeverRaises ==
    (walked # NotWalked /\ key_path \in RegistryPaths) => walked.tag # "raise"

(***************************************************************************)
(* C9: while the body of a set_proxy context runs, http_proxy is the proxy  *)
(* of that context; when the context exits, normally or on an exception,   *)
(* http_proxy is again what it was on entry: its old value if it was set,  *)
(* the empty string included, and unset if it was not.                     *)
(***************************************************************************)
C9_ExitRestoresEntryState ==
    [][/\ frames' # <<>> => environ' = <<frames'[Len(frames')].proxy>>
       /\ Len(frames') < Len(frames) => environ' = frames[Len(frames)].entered]_vars

====
